---- MODULE Spec2Model ----
(***************************************************************************)
(* A model of docgen's canonical variant, src/wat.py: the pure rendering   *)
(* functions (format_docstring, func_stub, class_stub, parse_func,         *)
(* parse_class, gendoc) and the driver main.                               *)
(*                                                                         *)
(* Python strings are sequences of one-character strings.  The syntax tree *)
(* ast.parse returns is a record tree: a module [doc, body], a function    *)
(* [kind, name, args, doc, lineno], a class [kind, name, bases, doc,       *)
(* lineno, body]; doc is what ast.get_docstring returns for the node.      *)
(***************************************************************************)
EXTENDS Integers, Sequences, FiniteSets, TLC

VARIABLES
    files,    \* main: the argument list
    idx,      \* main: index of the next file the first loop takes
    docs,     \* main: the dict docs, as its items in insertion order
    out,      \* standard output: one element per print call
    pc,       \* main: "gen", "print", "done" or "aborted"
    opened,   \* the paths handed to open(), in call order
    input,    \* the argument of the function under test
    call      \* the last call of a function under test and what it returned

vars == <<files, idx, docs, out, pc, opened, input, call>>

----------------------------------------------------------------------------
(* Bounds of the model.                                                    *)

MaxLen == 4        \* longest raw docstring handed to format_docstring alone
MaxArgs == 2       \* most parameters of a function under test
MaxLines == 2      \* most lines of a function docstring under test
MaxMethods == 2    \* most statements in a class body under test
MaxBody == 2       \* most top-level statements of a module under test
MaxFiles == 2      \* most paths on main's argument list

----------------------------------------------------------------------------
(* Sequences and Python's str methods.                                     *)

Range(s) == {s[i] : i \in DOMAIN s}

SeqsUpTo(S, n) == UNION {[1..k -> S] : k \in 0..n}

RECURSIVE Flatten(_)
Flatten(ss) == IF ss = <<>> THEN <<>> ELSE Head(ss) \o Flatten(Tail(ss))

\* [F(x) for x in s]
Map(s, F(_)) == [i \in DOMAIN s |-> F(s[i])]

StartsWith(s, p) == Len(p) <= Len(s) /\ SubSeq(s, 1, Len(p)) = p

\* sub in s
Contains(s, sub) ==
    \E i \in 0..(Len(s) - Len(sub)) : SubSeq(s, i + 1, i + Len(sub)) = sub

\* s[n:]
Drop(s, n) == SubSeq(s, n + 1, Len(s))

\* sep.join(parts)
RECURSIVE join(_, _)
join(sep, parts) ==
    IF parts = <<>> THEN <<>>
    ELSE IF Len(parts) = 1 THEN parts[1]
    ELSE parts[1] \o sep \o join(sep, Tail(parts))

\* The index of the leftmost occurrence of sub in s, 0 when there is none
Occurrences(s, sub) ==
    {i \in 1..(Len(s) - Len(sub) + 1) : SubSeq(s, i, i + Len(sub) - 1) = sub}

First(at) == IF at = {} THEN 0 ELSE CHOOSE i \in at : \A j \in at : i <= j

Find(s, sub) == First(Occurrences(s, sub))

\* s.split(sep), sep not empty: cut at the leftmost occurrence i, go on behind it
RECURSIVE split(_, _)
SplitAt(s, sep, i) ==
    IF i = 0 THEN <<s>>
    ELSE <<SubSeq(s, 1, i - 1)>> \o split(Drop(s, i + Len(sep) - 1), sep)

split(s, sep) == SplitAt(s, sep, Find(s, sep))

NL == <<"\n">>

DropLastEmpty(ps) == IF ps[Len(ps)] = <<>> THEN SubSeq(ps, 1, Len(ps) - 1) ELSE ps

\* s.splitlines(): the pieces between line breaks, without a last empty piece
splitlines(s) == DropLastEmpty(split(s, NL))

LowerOf(c) ==
    CASE c = "T" -> "t" [] c = "O" -> "o" [] c = "D" -> "d" [] c = "P" -> "p"
      [] c = "R" -> "r" [] c = "B" -> "b" [] c = "C" -> "c" [] c = "X" -> "x"
      [] OTHER -> c

\* s.lower()
lower(s) == [i \in DOMAIN s |-> LowerOf(s[i])]

\* s.replace(old, new): leftmost occurrences, not overlapping
RECURSIVE replace(_, _, _)
ReplaceAt(s, old, new, i) ==
    IF i = 0 THEN s
    ELSE SubSeq(s, 1, i - 1) \o new \o replace(Drop(s, i + Len(old) - 1), old, new)

replace(s, old, new) == ReplaceAt(s, old, new, Find(s, old))

RECURSIVE LStrip(_, _)
LStrip(s, chars) ==
    IF s # <<>> /\ Head(s) \in chars THEN LStrip(Tail(s), chars) ELSE s

RECURSIVE RStrip(_, _)
RStrip(s, chars) ==
    IF s # <<>> /\ s[Len(s)] \in chars THEN RStrip(SubSeq(s, 1, Len(s) - 1), chars)
    ELSE s

\* s.strip(chars)
stripchars(s, chars) == RStrip(LStrip(s, chars), chars)

Whitespace == {" ", "\n"}

\* s.strip()
strip(s) == stripchars(s, Whitespace)

Digit(n) ==
    CASE n = 0 -> "0" [] n = 1 -> "1" [] n = 2 -> "2" [] n = 3 -> "3" [] n = 4 -> "4"
      [] n = 5 -> "5" [] n = 6 -> "6" [] n = 7 -> "7" [] n = 8 -> "8" [] n = 9 -> "9"

\* str(n), n >= 0
RECURSIVE Str(_)
Str(n) == IF n < 10 THEN <<Digit(n)>> ELSE Str(n \div 10) \o <<Digit(n % 10)>>

\* repr(s) of a string without quotes, backslashes or control characters
repr(s) == <<"'">> \o s \o <<"'">>

----------------------------------------------------------------------------
(* format_docstring                                                        *)

\* ast.get_docstring's None
NoneDoc == <<"<None>">>

HeadingMarker == <<"#", "#", "#", "#", " ">>

RECURSIVE LeadingHashes(_)
LeadingHashes(line) ==
    IF line # <<>> /\ Head(line) = "#" THEN 1 + LeadingHashes(Tail(line)) ELSE 0

\* The match of ^#+ ?  in a line with n leading #: those n, and the space
\* after them if there is one
MatchLen(line, n) == IF n < Len(line) /\ line[n + 1] = " " THEN n + 1 ELSE n

Rewrite(line, n, matched) == IF n = 0 THEN line ELSE HeadingMarker \o Drop(line, matched)

\* A plausible slip: the pattern ^#+ without the optional space.
SubHeadingKeepSpace(line) == Rewrite(line, LeadingHashes(line), LeadingHashes(line))

\* The one substitution re.sub makes on a line under re.MULTILINE: a match of
\* ^#+ ?  becomes '#### '.
SubHeading(line) ==
    Rewrite(line, LeadingHashes(line), MatchLen(line, LeadingHashes(line)))

\* ^ matches at the start of the text and after each "\n", and the match never
\* crosses a "\n": the substitution acts on each "\n"-separated piece alone.
format_docstring(docstring) ==
    IF docstring # NoneDoc
    THEN join(NL, Map(split(docstring, NL), SubHeading))
    ELSE <<>>

----------------------------------------------------------------------------
(* Stubs                                                                   *)

CommaSpace == <<",", " ">>

\* The backquote character (a TLA+ string literal cannot hold one)
BQ == "<backquote>"

\* getattr(n, 'id', 'unnamed') of a base expression
BaseId(n) == IF n.kind = "Name" THEN n.id ELSE <<"u", "n", "n", "a", "m", "e", "d">>

ClassStubOf(name, bases) ==
    <<BQ, "c", "l", "a", "s", "s", " ">> \o name
    \o (IF bases # <<>> THEN <<"(">> \o join(CommaSpace, bases) \o <<")">> ELSE <<>>)
    \o <<BQ, ":">>

class_stub(class_node) == ClassStubOf(class_node.name, Map(class_node.bases, BaseId))

func_stub(func_node) ==
    <<"d", "e", "f", " ", BQ>> \o func_node.name \o <<"(">>
    \o join(CommaSpace, func_node.args) \o <<")", BQ, ":">>

----------------------------------------------------------------------------
(* parse_func and parse_class                                              *)

TodoMarker == <<"@", "t", "o", "d", "o">>
PropMarker == <<"@", "p", "r", "o", "p">>

\* A plausible slip: the marker looked for in the line as written
IsTodoCaseSensitive(line) == Contains(line, TodoMarker)

\* '@todo' in line.lower()
IsTodo(line) == Contains(lower(line), TodoMarker)
NotTodo(line) == ~IsTodo(line)

\* parse_func's default for indents
DefaultIndents == 2

RECURSIVE Hashes(_)
Hashes(n) == IF n = 0 THEN <<>> ELSE <<"#">> \o Hashes(n - 1)

\* The loop that splits rawdoc: the lines it appends to todos, paired with lineno
TodosOf(rawdoc, lineno) == Map(SelectSeq(rawdoc, IsTodo), LAMBDA line : <<lineno, line>>)

\* ... and the lines it appends to doc
BodyOf(rawdoc) == SelectSeq(rawdoc, NotTodo)

\* parse_func's local variables at its return statement (doc before line 88
\* joins it), with indents at its default
ParseFuncLoop(func, rawdoc) ==
    [stub |-> Hashes(DefaultIndents) \o func_stub(func),
     doc |-> BodyOf(rawdoc),
     todos |-> TodosOf(rawdoc, func.lineno)]

parse_func_locals(func) == ParseFuncLoop(func, splitlines(format_docstring(func.doc)))

ParseFuncReturn(l) == [doc |-> l.stub \o NL \o join(NL, l.doc), todos |-> l.todos]

parse_func(func) == ParseFuncReturn(parse_func_locals(func))

IsFunctionDef(n) == n.kind = "FunctionDef"
IsClassDef(n) == n.kind = "ClassDef"

\* A plausible slip: the marker looked for in the text as written
IsPropCaseSensitive(methoddoc) == Contains(methoddoc.doc, PropMarker)

\* '@prop' in methoddoc['doc'].lower()
IsProp(methoddoc) == Contains(lower(methoddoc.doc), PropMarker)
NotProp(methoddoc) == ~IsProp(methoddoc)

\* What parse_class appends to clsdoc for a method with the marker
Promoted(methoddoc) == strip(replace(methoddoc.doc, PropMarker, <<>>))

\* parse_class's local variables at its return statement, rawdoc being the
\* class's own lines and parsed what parse_func returned for each method
ParseClassLoops(cls, rawdoc, parsed) ==
    [title |-> class_stub(cls),
     clsdoc |-> BodyOf(rawdoc) \o Map(SelectSeq(parsed, IsProp), Promoted),
     methoddocs |-> Map(SelectSeq(parsed, NotProp), LAMBDA md : md.doc),
     todos |-> TodosOf(rawdoc, cls.lineno) \o Flatten(Map(parsed, LAMBDA md : md.todos))]

parse_class_locals(cls) ==
    ParseClassLoops(cls, splitlines(format_docstring(cls.doc)),
                    Map(SelectSeq(cls.body, IsFunctionDef), parse_func))

ParseClassReturn(l) ==
    [doc |-> join(NL, <<l.title, join(NL, l.clsdoc), join(NL, l.methoddocs)>>),
     todos |-> l.todos]

parse_class(cls) == ParseClassReturn(parse_class_locals(cls))

----------------------------------------------------------------------------
(* Paths and the files on disk                                             *)

Slash == <<"/">>
Dot == <<".">>
DotDot == <<".", ".">>

\* The components of a path, with "" and "." dropped and ".." applied; up
\* counts the steps above the starting directory.
RECURSIVE Walk(_, _, _, _)
Walk(comps, abs, up, acc) ==
    IF comps = <<>> THEN [abs |-> abs, up |-> up, comps |-> acc]
    ELSE LET c == Head(comps)
             rest == Tail(comps)
         IN  IF c = <<>> \/ c = Dot THEN Walk(rest, abs, up, acc)
             ELSE IF c = DotDot
                  THEN IF acc # <<>> THEN Walk(rest, abs, up, SubSeq(acc, 1, Len(acc) - 1))
                       ELSE Walk(rest, abs, IF abs THEN 0 ELSE up + 1, acc)
             ELSE Walk(rest, abs, up, Append(acc, c))

\* The location a path denotes for the operating system, from the working
\* directory (a relative path) or from the root (one that starts with "/").
Resolve(p) == Walk(split(p, Slash), StartsWith(p, Slash), 0, <<>>)

Last(s) == s[Len(s)]

\* A path that can only denote a directory: empty last component, "." or ".."
NamesDirectory(p) == Last(split(p, Slash)) \in {<<>>, Dot, DotDot}

\* open(p) succeeds: p names a regular file of the disk
CanOpen(p, dsk) == ~NamesDirectory(p) /\ Resolve(p) \in DOMAIN dsk

----------------------------------------------------------------------------
(* gendoc                                                                  *)

\* str((f, lineno, line)) of an entry of todos
StrTodo(todo) ==
    <<"(">> \o repr(todo[1]) \o CommaSpace \o Str(todo[2]) \o CommaSpace
    \o repr(todo[3]) \o <<")">>

CheckBox == <<"-", " ", "[", " ", "]", " ">>

\* A plausible slip: the classes' entries collected before the functions'
RawTodosClassesFirst(funcparsed, classparsed) ==
    Flatten(Map(classparsed, LAMBDA d : d.todos))
    \o Flatten(Map(funcparsed, LAMBDA d : d.todos))

\* rawtodos after the two loops: every function's todos, then every class's
RawTodos(funcparsed, classparsed) ==
    Flatten(Map(funcparsed, LAMBDA d : d.todos))
    \o Flatten(Map(classparsed, LAMBDA d : d.todos))

\* f.strip('./')
StripPath(f) == stripchars(f, {".", "/"})

\* gendoc's local variables at its return statement, fulldocs being what
\* it returns
GendocReturn(f, fdoc, todos, funcdocs, classdocs) ==
    [f |-> f, fdoc |-> fdoc, todos |-> todos, funcdocs |-> funcdocs, classdocs |-> classdocs,
     fulldocs |-> join(NL \o NL,
                       <<<<"#", " ", BQ>> \o f \o <<BQ>>>> \o fdoc
                       \o Map(todos, LAMBDA t : CheckBox \o StrTodo(t))
                       \o funcdocs \o classdocs)]

\* The loops of gendoc, f being the stripped path, rawdoc the file-level
\* lines, funcparsed and classparsed what parse_func and parse_class returned
\* for the functions and the classes
GendocLoops(f, rawdoc, funcparsed, classparsed) ==
    GendocReturn(f, BodyOf(rawdoc),
                 Map(TodosOf(rawdoc, 0), LAMBDA t : <<f>> \o t)
                 \o Map(RawTodos(funcparsed, classparsed), LAMBDA t : <<f>> \o t),
                 Map(funcparsed, LAMBDA d : d.doc),
                 Map(classparsed, LAMBDA d : d.doc))

gendoc_locals(f, node) ==
    GendocLoops(f, splitlines(format_docstring(node.doc)),
                Map(SelectSeq(node.body, IsFunctionDef), parse_func),
                Map(SelectSeq(node.body, IsClassDef), parse_class))

\* with open(f) as file: node = ast.parse(file.read()), and the rest
GendocOpen(g, canopen, file) ==
    IF canopen /\ file.ok
    THEN [raised |-> FALSE, path |-> g, locals |-> gendoc_locals(g, file.node)]
    ELSE [raised |-> TRUE, path |-> g]

NoFile == [ok |-> FALSE]

ReadFile(loc, dsk) == IF loc \in DOMAIN dsk THEN dsk[loc] ELSE NoFile

GendocStripped(g, dsk) == GendocOpen(g, CanOpen(g, dsk), ReadFile(Resolve(g), dsk))

\* gendoc(f) against the files of dsk: the path it hands to open, whether an
\* exception leaves it (open or ast.parse failed), and its locals otherwise
gendoc(f, dsk) == GendocStripped(StripPath(f), dsk)

----------------------------------------------------------------------------
(* The inputs of the functions under test                                  *)

Todo == <<"@", "t", "o", "d", "o">>
TODO == <<"@", "T", "O", "D", "O">>
Prop == <<"@", "p", "r", "o", "p">>
PROP == <<"@", "P", "R", "O", "P">>

\* Raw texts for format_docstring alone
FormatInputs ==
    {[kind |-> "doc", d |-> d] : d \in SeqsUpTo({"#", " ", "x", "\n"}, MaxLen) \cup {NoneDoc}}

\* ast.get_docstring returns None or cleaned text: no empty first or last line
Cleaned(ls) == ls = <<>> \/ (ls[1] # <<>> /\ ls[Len(ls)] # <<>>)

DocsOf(lines, n) ==
    {join(NL, ls) : ls \in {l \in SeqsUpTo(lines, n) : Cleaned(l)}} \cup {NoneDoc}

FuncLines ==
    {<<"x">>, Todo \o <<" ", "y">>, <<"z", " ">> \o TODO, <<"#", "h">>, <<>>}

FuncInputs ==
    {[kind |-> "func",
      node |-> [kind |-> "FunctionDef", name |-> <<"f">>, args |-> a, doc |-> d, lineno |-> 3]] :
        a \in SeqsUpTo({<<"a">>, <<"b">>}, MaxArgs), d \in DocsOf(FuncLines, MaxLines)}

Method(d) ==
    [kind |-> "FunctionDef", name |-> <<"m">>, args |-> <<<<"s">>>>, doc |-> d, lineno |-> 0]

OtherStmt == [kind |-> "Other", lineno |-> 0]

MethodDocs ==
    {NoneDoc,
     <<"x">>,
     Todo \o <<" ", "y">>,
     Prop,
     PROP \o <<" ", "x">>,
     <<"x", " ">> \o Prop \o <<" ">>,
     Prop \o <<" ", "x">> \o NL \o TODO \o <<" ", "y">>,
     <<"x">> \o NL \o Todo \o <<" ">> \o Prop}

\* The statements of a body get the line numbers after their owner's
Renumber(body, first) == [i \in DOMAIN body |-> [body[i] EXCEPT !.lineno = first + i]]

Class(name, bases, d, body) ==
    [kind |-> "ClassDef", name |-> name, bases |-> bases, doc |-> d, lineno |-> 1,
     body |-> Renumber(body, 1)]

BaseLists ==
    {<<>>, <<[kind |-> "Name", id |-> <<"B">>]>>,
     <<[kind |-> "Name", id |-> <<"B">>], [kind |-> "Attribute"]>>}

ClassDocs == {NoneDoc, <<"x">>, Todo \o <<" ", "z">> \o NL \o <<"x">>}

ClassInputs ==
    {[kind |-> "class", node |-> Class(<<"C">>, b, d, body)] :
        b \in BaseLists, d \in ClassDocs,
        body \in SeqsUpTo({Method(d) : d \in MethodDocs} \cup {OtherStmt}, MaxMethods)}

TopStmts_f ==
    [kind |-> "FunctionDef", name |-> <<"f">>, args |-> <<<<"a">>>>,
     doc |-> <<"x">> \o NL \o Todo \o <<" ", "y">>, lineno |-> 0]

TopStmts ==
    {TopStmts_f,
     [kind |-> "FunctionDef", name |-> <<"g">>, args |-> <<>>, doc |-> NoneDoc, lineno |-> 0],
     [kind |-> "ClassDef", name |-> <<"C">>, bases |-> <<>>,
      doc |-> TODO \o <<" ", "z">>, lineno |-> 0,
      body |-> <<Method(<<"x">> \o NL \o Todo \o <<" ", "w">>)>>],
     [kind |-> "ClassDef", name |-> <<"D">>, bases |-> <<>>, doc |-> NoneDoc, lineno |-> 0,
      body |-> <<Method(Todo \o <<" ", "q">> \o NL \o Prop \o <<" ", "p">>), Method(Todo)>>],
     OtherStmt}

\* Top-level statement i starts at line 3i-2; a class's methods follow its line
Place(stmt, line) ==
    IF stmt.kind = "ClassDef"
    THEN [stmt EXCEPT !.lineno = line, !.body = Renumber(stmt.body, line)]
    ELSE [stmt EXCEPT !.lineno = line]

Module(d, body) == [doc |-> d, body |-> [i \in DOMAIN body |-> Place(body[i], 3 * i - 2)]]

ModuleDocs == {NoneDoc, <<"x">>, Todo \o <<" ", "m">> \o NL \o <<"x">> \o NL \o TODO}

ModuleInputs ==
    {[kind |-> "module", f |-> f, node |-> Module(d, body)] :
        f \in {<<"a">>, <<".", "/", "a">>}, d \in ModuleDocs,
        body \in SeqsUpTo(TopStmts, MaxBody)}

NoInput == [kind |-> "none"]
NoCall == [op |-> "none"]

----------------------------------------------------------------------------
(* The functions under test, each called on the input                      *)

InitUnit ==
    /\ input \in FormatInputs \cup FuncInputs \cup ClassInputs \cup ModuleInputs
    /\ call = NoCall
    /\ files = <<>> /\ idx = 1 /\ docs = <<>> /\ out = <<>> /\ pc = "idle" /\ opened = <<>>

Driver == <<files, idx, docs, out, pc, opened>>

CallFormatDocstring ==
    /\ input.kind = "doc"
    /\ call' = [op |-> "format_docstring", arg |-> input.d, ret |-> format_docstring(input.d)]
    /\ UNCHANGED <<input, Driver>>

\* format_docstring on the text the last call of it returned
CallFormatDocstringAgain ==
    /\ call.op = "format_docstring"
    /\ call' = [op |-> "format_docstring_again", arg |-> call.ret,
                ret |-> format_docstring(call.ret)]
    /\ UNCHANGED <<input, Driver>>

CallFuncStub ==
    /\ input.kind = "func"
    /\ call' = [op |-> "func_stub", arg |-> input.node, ret |-> func_stub(input.node)]
    /\ UNCHANGED <<input, Driver>>

FuncCall(func, l) ==
    [op |-> "parse_func", arg |-> func, ret |-> ParseFuncReturn(l), locals |-> l]

CallParseFunc ==
    /\ input.kind = "func"
    /\ call' = FuncCall(input.node, parse_func_locals(input.node))
    /\ UNCHANGED <<input, Driver>>

CallClassStub ==
    /\ input.kind = "class"
    /\ call' = [op |-> "class_stub", arg |-> input.node, ret |-> class_stub(input.node)]
    /\ UNCHANGED <<input, Driver>>

ClassCall(cls, l) ==
    [op |-> "parse_class", arg |-> cls, ret |-> ParseClassReturn(l), locals |-> l]

CallParseClass ==
    /\ input.kind = "class"
    /\ call' = ClassCall(input.node, parse_class_locals(input.node))
    /\ UNCHANGED <<input, Driver>>

OneFile(loc, node) == (loc :> [ok |-> TRUE, node |-> node])

GendocCall(f, node, r) ==
    [op |-> "gendoc", arg |-> node, f |-> f, path |-> r.path,
     ret |-> r.locals.fulldocs, locals |-> r.locals]

\* gendoc(f) with the file it opens holding the input's module
CallGendoc ==
    /\ input.kind = "module"
    /\ call' = GendocCall(input.f, input.node,
                          gendoc(input.f, OneFile(Resolve(StripPath(input.f)), input.node)))
    /\ UNCHANGED <<input, Driver>>

NextUnit ==
    \/ CallFormatDocstring
    \/ CallFormatDocstringAgain
    \/ CallFuncStub
    \/ CallParseFunc
    \/ CallClassStub
    \/ CallParseClass
    \/ CallGendoc

SpecUnit == InitUnit /\ [][NextUnit]_vars

----------------------------------------------------------------------------
(* main                                                                    *)

FileA == Module(<<"x">>, <<TopStmts_f>>)
FileUpA == Module(Todo \o <<" ", "u">>, <<>>)

\* The files on disk: a and ../a parse, b does not (ast.parse raises
\* SyntaxError), and nothing else exists.
Disk ==
    (Resolve(<<"a">>) :> [ok |-> TRUE, node |-> FileA])
    @@ (Resolve(<<".", ".", "/", "a">>) :> [ok |-> TRUE, node |-> FileUpA])
    @@ (Resolve(<<"b">>) :> [ok |-> FALSE])

Paths ==
    {<<"a">>, <<".", "/", "a">>, <<".", ".", "/", "a">>, <<"/", "a">>, <<"b">>, <<"c">>}

Init ==
    /\ files \in SeqsUpTo(Paths, MaxFiles)
    /\ idx = 1
    /\ docs = <<>>
    /\ out = <<>>
    /\ pc = "gen"
    /\ opened = <<>>
    /\ input = NoInput
    /\ call = NoCall

\* docs[k] = v on a dict kept as its items in insertion order: a key the dict
\* holds keeps its place and takes the new value
DictSet(d, k, v) ==
    IF \E i \in DOMAIN d : d[i].k = k
    THEN [i \in DOMAIN d |-> IF d[i].k = k THEN [k |-> k, v |-> v] ELSE d[i]]
    ELSE Append(d, [k |-> k, v |-> v])

\* A plausible slip: a file that fails is skipped and the loop goes on
Skipped(r) ==
    /\ opened' = Append(opened, r.path)
    /\ docs' = IF r.raised THEN docs ELSE DictSet(docs, files[idx], r.locals.fulldocs)
    /\ idx' = idx + 1
    /\ pc' = pc

GendocStepIsolated ==
    /\ pc = "gen"
    /\ idx <= Len(files)
    /\ Skipped(gendoc(files[idx], Disk))
    /\ UNCHANGED <<files, out, input, call>>

\* docs[f] = r once gendoc(f) has returned r, or the exception that left it
Assigned(r) ==
    /\ opened' = Append(opened, r.path)
    /\ IF r.raised
       THEN /\ pc' = "aborted"
            /\ UNCHANGED <<idx, docs>>
       ELSE /\ docs' = DictSet(docs, files[idx], r.locals.fulldocs)
            /\ idx' = idx + 1
            /\ pc' = pc

\* One pass of the first loop: docs[f] = gendoc(f); an exception of gendoc
\* leaves main and ends the process
GendocStep ==
    /\ pc = "gen"
    /\ idx <= Len(files)
    /\ Assigned(gendoc(files[idx], Disk))
    /\ UNCHANGED <<files, out, input, call>>

\* The first loop is exhausted: on to the second
LoopExit ==
    /\ pc = "gen"
    /\ idx > Len(files)
    /\ pc' = "print"
    /\ UNCHANGED <<files, idx, docs, out, opened, input, call>>

\* One pass of the second loop, over docs.items(): print(v)
PrintStep ==
    /\ pc = "print"
    /\ Len(out) < Len(docs)
    /\ out' = Append(out, docs[Len(out) + 1].v \o NL)
    /\ UNCHANGED <<files, idx, docs, pc, opened, input, call>>

Return ==
    /\ pc = "print"
    /\ Len(out) = Len(docs)
    /\ pc' = "done"
    /\ UNCHANGED <<files, idx, docs, out, opened, input, call>>

Next ==
    \/ GendocStep
    \/ LoopExit
    \/ PrintStep
    \/ Return

Spec == Init /\ [][Next]_vars

----------------------------------------------------------------------------
(* What the claims speak of, stated apart from the code                    *)

\* The marker occurs in the line in some letter case
MarkedCI(line, marker) ==
    \E i \in 1..(Len(line) - Len(marker) + 1) :
        \A j \in 1..Len(marker) : LowerOf(line[i + j - 1]) = marker[j]

HasTodo(line) == MarkedCI(line, Todo)
HasNoTodo(line) == ~MarkedCI(line, Todo)

\* The lines L1..Lk of a docstring's normalized text
NormLines(d) == splitlines(format_docstring(d))

TodoLines(d) == SelectSeq(NormLines(d), HasTodo)
BodyLines(d) == SelectSeq(NormLines(d), HasNoTodo)

CountTodo(d) == Cardinality({i \in DOMAIN NormLines(d) : HasTodo(NormLines(d)[i])})

\* The annotations of one declaration: its TODO lines, each with its line
Annotations(decl) == [i \in DOMAIN TodoLines(decl.doc) |-> <<decl.lineno, TodoLines(decl.doc)[i]>>]

IsFunctionStmt(n) == n.kind = "FunctionDef"
IsClassStmt(n) == n.kind = "ClassDef"

MethodsOf(cls) == SelectSeq(cls.body, IsFunctionStmt)

RECURSIVE AnnotationsOfAll(_)
AnnotationsOfAll(decls) ==
    IF decls = <<>> THEN <<>>
    ELSE Annotations(Head(decls)) \o AnnotationsOfAll(Tail(decls))

\* A class's annotations: its own, then its methods' in declaration order
ClassAnnotations(cls) == Annotations(cls) \o AnnotationsOfAll(MethodsOf(cls))

RECURSIVE ClassAnnotationsOfAll(_)
ClassAnnotationsOfAll(classes) ==
    IF classes = <<>> THEN <<>>
    ELSE ClassAnnotations(Head(classes)) \o ClassAnnotationsOfAll(Tail(classes))

\* The discovery order of a source unit's annotations, each with its file
Discovery(file, node) ==
    LET found == Annotations([doc |-> node.doc, lineno |-> 0])
                 \o AnnotationsOfAll(SelectSeq(node.body, IsFunctionStmt))
                 \o ClassAnnotationsOfAll(SelectSeq(node.body, IsClassStmt))
    IN  [i \in DOMAIN found |-> <<file, found[i][1], found[i][2]>>]

\* The checklist entries of a document, in the order they stand in it
IsEntry(part) == StartsWith(part, CheckBox)
ChecklistOf(document) == SelectSeq(split(document, NL \o NL), IsEntry)

\* The text of a method's docstring once its TODO lines are gone
Filtered(method) == join(NL, BodyLines(method.doc))
HasProp(method) == MarkedCI(Filtered(method), Prop)
HasNoProp(method) == ~HasProp(method)

\* parse_class's promoted blocks: what follows the class's own lines in clsdoc
PromotedBlocks(c) == Drop(c.locals.clsdoc, Len(BodyLines(c.arg.doc)))

PromotedMethods(cls) == SelectSeq(MethodsOf(cls), HasProp)
PlainMethods(cls) == SelectSeq(MethodsOf(cls), HasNoProp)

\* The document gendoc returns for a path main was given, as print writes it
Printed(f) == gendoc(f, Disk).locals.fulldocs \o NL

Fails(f) == gendoc(f, Disk).raised

----------------------------------------------------------------------------
(* The claims                                                              *)

\* C1: once main has returned, standard output holds exactly one document
\* per input path, in input order, paths given more than once included.
C1_OneDocumentPerInputPath ==
    pc = "done" => out = [i \in DOMAIN files |-> Printed(files[i])]

\* C2: if gendoc fails on the i-th file, the run aborts and standard output
\* holds no document of file i or of a file after it.
C2_FailureAbortsWithoutOutput ==
    \A i \in DOMAIN files :
        (Len(opened) >= i /\ Fails(files[i])) =>
            /\ pc = "aborted"
            /\ \A j \in i..Len(files) : \A k \in DOMAIN out :
                   ~Fails(files[j]) => out[k] # Printed(files[j])

C2_Witness ==
    /\ pc = "aborted"
    /\ Len(files) = 2
    /\ Len(docs) = 1
    /\ out = <<>>

\* C10: the path gendoc hands to open denotes the location the input path
\* denotes.
C10_OpensTheGivenLocation ==
    \A i \in DOMAIN opened :
        /\ Resolve(opened[i]) = Resolve(files[i])
        /\ NamesDirectory(opened[i]) = NamesDirectory(files[i])

\* C7: format_docstring applied to its own result returns that result.
C7_FormatDocstringIdempotent ==
    call.op = "format_docstring_again" => call.ret = call.arg

C7_Witness ==
    /\ call.op = "format_docstring_again"
    /\ input.d # NoneDoc
    /\ call.arg # input.d
    /\ Len(split(call.arg, NL)) > 1

\* C6: func_stub returns the signature from def to the closing parenthesis
\* inside one pair of backquotes, then a colon; parameters joined by ", ".
C6_FuncStubText ==
    call.op = "func_stub" =>
        call.ret = <<BQ, "d", "e", "f", " ">> \o call.arg.name \o <<"(">>
                   \o join(<<",", " ">>, call.arg.args) \o <<")", BQ, ":">>

\* C4: of the k lines of a docstring's normalized text, the m lines with the
\* TODO marker (in any letter case) become m annotations with the
\* declaration's line, the other k - m the body, both in their order; in
\* parse_func, parse_class and gendoc alike.
C4_ExtractionSplitsLines ==
    /\ call.op = "parse_func" =>
         /\ Len(call.ret.todos) = CountTodo(call.arg.doc)
         /\ Len(call.locals.doc) = Len(NormLines(call.arg.doc)) - CountTodo(call.arg.doc)
         /\ call.ret.todos = Annotations(call.arg)
         /\ call.locals.doc = BodyLines(call.arg.doc)
    /\ call.op = "parse_class" =>
         LET m == CountTodo(call.arg.doc)
             k == Len(NormLines(call.arg.doc))
         IN  /\ Len(call.locals.todos) >= m
             /\ Len(call.locals.clsdoc) >= k - m
             /\ SubSeq(call.locals.todos, 1, m) = Annotations(call.arg)
             /\ SubSeq(call.locals.clsdoc, 1, k - m) = BodyLines(call.arg.doc)
    /\ call.op = "gendoc" =>
         LET m == CountTodo(call.arg.doc)
         IN  /\ Len(call.locals.todos) >= m
             /\ Len(call.locals.fdoc) = Len(NormLines(call.arg.doc)) - m
             /\ \A i \in 1..m :
                    call.locals.todos[i] = <<call.path, 0, TodoLines(call.arg.doc)[i]>>
             /\ call.locals.fdoc = BodyLines(call.arg.doc)

C4_Witness ==
    /\ call.op = "parse_func"
    /\ Len(NormLines(call.arg.doc)) = 2
    /\ Len(call.ret.todos) = 1
    /\ call.ret.todos[1][2] # lower(call.ret.todos[1][2])

\* C3: the checklist of gendoc's document holds the annotations in discovery
\* order: the file-level ones, then each function's in declaration order,
\* then each class's (its own, then its methods' in order), each with the
\* file and the line of its declaration.
C3_ChecklistInDiscoveryOrder ==
    call.op = "gendoc" =>
        /\ call.locals.todos = Discovery(call.path, call.arg)
        /\ ChecklistOf(call.ret)
             = [i \in DOMAIN call.locals.todos |->
                   CheckBox \o <<"(">> \o repr(call.path) \o <<",", " ">>
                   \o Str(Discovery(call.path, call.arg)[i][2]) \o <<",", " ">>
                   \o repr(Discovery(call.path, call.arg)[i][3]) \o <<")">>]

C3_Witness ==
    /\ call.op = "gendoc"
    /\ Len(call.arg.body) = 2
    /\ call.arg.body[1].kind = "ClassDef"
    /\ call.arg.body[2].kind = "FunctionDef"
    /\ Len(ChecklistOf(call.ret)) >= 5

C8_PromotedBlockWithoutStub ==
    call.op = "parse_class" =>
        \A i \in DOMAIN PromotedBlocks(call) :
            ~Contains(PromotedBlocks(call)[i], func_stub(PromotedMethods(call.arg)[i]))

\* C9: a promoted block holds the PROPERTY marker in no letter case, and no
\* whitespace at its ends.
C9_PromotedBlockWithoutMarker ==
    call.op = "parse_class" =>
        \A i \in DOMAIN PromotedBlocks(call) :
            /\ ~MarkedCI(PromotedBlocks(call)[i], Prop)
            /\ strip(PromotedBlocks(call)[i]) = PromotedBlocks(call)[i]

====
